---- MODULE Spec2Model ----
(***************************************************************************)
(* A model of legal_doc_scraper.py: the /scrape endpoint, the link         *)
(* extractor, the path prober and the candidate loop of                    *)
(* scrape_legal_documents with its oracle-based acceptance rule.           *)
(*                                                                         *)
(* Python strings are TLA+ strings; Len, SubSeq and \o act on them         *)
(* character by character.  A page's markup is the sequence of its <a>     *)
(* elements, a JSON value is a tagged record, and a confidence is kept in  *)
(* hundredths (0.6 is 60).                                                 *)
(***************************************************************************)
EXTENDS Integers, Sequences, FiniteSets, TLC

(***************************************************************************)
(* Bounds of the model.                                                    *)
(***************************************************************************)
\* the root page holds at most this many anchors
MaxAnchors == 2

(***************************************************************************)
(* Python string primitives.                                               *)
(***************************************************************************)
\* Body applied to the value of v, which is computed once
With(v, Body(_)) == CHOOSE r \in {Body(x) : x \in {v}} : TRUE

CharAt(s, i) == SubSeq(s, i, i)

StartsWith(s, p) == Len(s) >= Len(p) /\ SubSeq(s, 1, Len(p)) = p

\* k in s
Contains(s, k) == \E i \in 0..(Len(s) - Len(k)) : SubSeq(s, i + 1, i + Len(k)) = k

\* the first position at or after `from` of one of the characters of `delims`,
\* 0 when there is none
FindAny(s, delims, from) ==
    With({i \in from..Len(s) : Contains(delims, CharAt(s, i))}, LAMBDA hits :
        IF hits = {} THEN 0 ELSE CHOOSE i \in hits : \A j \in hits : i <= j)

\* s.find(c) + 1
Find(s, c) == FindAny(s, c, 1)

UpperLetters == "ABCDEFGHIJKLMNOPQRSTUVWXYZ"
LowerLetters == "abcdefghijklmnopqrstuvwxyz"
Digits == "0123456789"

IsLower(c) == Len(c) = 1 /\ Contains(LowerLetters, c)
IsUpper(c) == Len(c) = 1 /\ Contains(UpperLetters, c)
IsAlpha(c) == IsLower(c) \/ IsUpper(c)

LowerChar(c) == IF IsUpper(c) THEN CharAt(LowerLetters, Find(UpperLetters, c)) ELSE c
UpperChar(c) == IF IsLower(c) THEN CharAt(UpperLetters, Find(LowerLetters, c)) ELSE c

RECURSIVE MapChars(_, _, _, _)
\* Op(s, lo) \o ... \o Op(s, hi), built by halving
MapChars(Op(_, _), s, lo, hi) ==
    IF lo > hi THEN ""
    ELSE IF lo = hi THEN Op(s, lo)
    ELSE With((lo + hi) \div 2, LAMBDA mid :
             MapChars(Op, s, lo, mid) \o MapChars(Op, s, mid + 1, hi))

LowerAt(s, i) == LowerChar(CharAt(s, i))

\* s.lower()
Lower(s) == MapChars(LowerAt, s, 1, Len(s))

\* str.title(): a letter is upper-cased when no letter precedes it, lower-cased otherwise
TitleAt(s, i) ==
    IF i = 1 \/ ~IsAlpha(CharAt(s, i - 1))
    THEN UpperChar(CharAt(s, i))
    ELSE LowerChar(CharAt(s, i))

Title(s) == MapChars(TitleAt, s, 1, Len(s))

HyphenToSpaceAt(s, i) == IF CharAt(s, i) = "-" THEN " " ELSE CharAt(s, i)

\* s.replace("-", " ")
ReplaceHyphens(s) == MapChars(HyphenToSpaceAt, s, 1, Len(s))

\* s.strip(c) for a character c
StripChar(s, c) ==
    With({i \in 1..Len(s) : CharAt(s, i) /= c}, LAMBDA kept :
        IF kept = {} THEN ""
        ELSE SubSeq(s, CHOOSE i \in kept : \A j \in kept : i <= j,
                       CHOOSE i \in kept : \A j \in kept : i >= j))

RECURSIVE Repeat(_, _)
\* s * n
Repeat(s, n) ==
    IF n = 0 THEN ""
    ELSE With(Repeat(s, n \div 2), LAMBDA h : h \o h \o (IF n % 2 = 1 THEN s ELSE ""))

RECURSIVE SplitFrom(_, _, _)
\* s[from-1:].split(c)
SplitFrom(s, c, from) ==
    With(FindAny(s, c, from), LAMBDA i :
        IF i = 0 THEN <<SubSeq(s, from, Len(s))>>
        ELSE <<SubSeq(s, from, i - 1)>> \o SplitFrom(s, c, i + 1))

\* s.split(c)
Split(s, c) == SplitFrom(s, c, 1)

RECURSIVE JoinFrom(_, _, _)
JoinFrom(parts, c, i) ==
    IF i > Len(parts) THEN ""
    ELSE IF i = Len(parts) THEN parts[i]
    ELSE parts[i] \o c \o JoinFrom(parts, c, i + 1)

\* c.join(parts)
Join(parts, c) == JoinFrom(parts, c, 1)

(***************************************************************************)
(* urllib.parse, as the scraper uses it: urlparse at line 216, urljoin at  *)
(* line 90.  The modelled URLs carry no ";params".                         *)
(***************************************************************************)
SchemeChars == LowerLetters \o UpperLetters \o Digits \o "+-."

UsesRelative ==
    {"", "ftp", "http", "gopher", "nntp", "imap", "wais", "file", "https", "shttp",
     "mms", "prospero", "rtsp", "rtspu", "sftp", "svn", "svn+ssh", "ws", "wss"}

UsesNetloc ==
    {"", "ftp", "http", "gopher", "nntp", "telnet", "imap", "wais", "file", "mms",
     "https", "shttp", "snews", "prospero", "rtsp", "rtspu", "rsync", "svn",
     "svn+ssh", "sftp", "nfs", "git", "git+ssh", "ws", "wss"}

\* s.split(c, 1), with "" for a missing second part
Cut(s, c) ==
    With(Find(s, c), LAMBDA i :
        IF i = 0 THEN [head |-> s, tail |-> ""]
        ELSE [head |-> SubSeq(s, 1, i - 1), tail |-> SubSeq(s, i + 1, Len(s))])

\* the scheme of url ("" when it has none) and what follows its ":"
SplitScheme(url) ==
    With(Find(url, ":"), LAMBDA i :
        IF /\ i > 1
           /\ IsAlpha(CharAt(url, 1))
           /\ \A j \in 1..(i - 1) : Contains(SchemeChars, CharAt(url, j))
        THEN [scheme |-> Lower(SubSeq(url, 1, i - 1)), rest |-> SubSeq(url, i + 1, Len(url))]
        ELSE [scheme |-> "", rest |-> url])

\* _splitnetloc
SplitNetloc(rest) ==
    IF ~StartsWith(rest, "//") THEN [netloc |-> "", rest |-> rest]
    ELSE With(FindAny(rest, "/?#", 3), LAMBDA d :
             IF d = 0 THEN [netloc |-> SubSeq(rest, 3, Len(rest)), rest |-> ""]
             ELSE [netloc |-> SubSeq(rest, 3, d - 1), rest |-> SubSeq(rest, d, Len(rest))])

\* urlparse(url, scheme=default): scheme, netloc, path, query, fragment
urlparse(url, default) ==
    With(SplitScheme(url), LAMBDA sch :
    With(SplitNetloc(sch.rest), LAMBDA net :
    With(Cut(net.rest, "#"), LAMBDA frag :
    With(Cut(frag.head, "?"), LAMBDA qry :
        [scheme |-> IF sch.scheme = "" THEN default ELSE sch.scheme,
         netloc |-> net.netloc, path |-> qry.head,
         query |-> qry.tail, fragment |-> frag.tail]))))

urlunparse(p) ==
    With(IF p.netloc /= ""
            \/ (p.scheme /= "" /\ p.scheme \in UsesNetloc /\ ~StartsWith(p.path, "//"))
         THEN "//" \o p.netloc
              \o (IF p.path /= "" /\ ~StartsWith(p.path, "/") THEN "/" ELSE "")
              \o p.path
         ELSE p.path, LAMBDA u1 :
        (IF p.scheme /= "" THEN p.scheme \o ":" \o u1 ELSE u1)
        \o (IF p.query /= "" THEN "?" \o p.query ELSE "")
        \o (IF p.fragment /= "" THEN "#" \o p.fragment ELSE ""))

RECURSIVE ResolveDots(_, _, _)
\* the loop of urljoin over the path segments: ".." pops, "." is dropped
ResolveDots(segments, i, resolved) ==
    IF i > Len(segments) THEN resolved
    ELSE With(IF segments[i] = ".."
              THEN (IF Len(resolved) = 0 THEN resolved
                    ELSE SubSeq(resolved, 1, Len(resolved) - 1))
              ELSE IF segments[i] = "." THEN resolved
              ELSE Append(resolved, segments[i]), LAMBDA next :
             ResolveDots(segments, i + 1, next))

\* the path of urljoin's result, from the base's path and a non-empty relative path
JoinPaths(bpath, path) ==
    With(Split(bpath, "/"), LAMBDA bp :
    With(IF bp[Len(bp)] /= "" THEN SubSeq(bp, 1, Len(bp) - 1) ELSE bp, LAMBDA base_parts :
    With(base_parts \o Split(path, "/"), LAMBDA all :
    With(IF StartsWith(path, "/") THEN Split(path, "/")
         ELSE IF Len(all) < 2 THEN all
         ELSE <<all[1]>>
              \o SelectSeq(SubSeq(all, 2, Len(all) - 1), LAMBDA seg : seg /= "")
              \o <<all[Len(all)]>>, LAMBDA segments :
    With(ResolveDots(segments, 1, <<>>), LAMBDA r0 :
    With(Join(IF segments[Len(segments)] \in {".", ".."} THEN Append(r0, "") ELSE r0, "/"),
         LAMBDA joined : IF joined = "" THEN "/" ELSE joined))))))

urljoin(base, url) ==
    IF base = "" THEN url
    ELSE IF url = "" THEN base
    ELSE
    With(urlparse(base, ""), LAMBDA b :
    With(urlparse(url, b.scheme), LAMBDA u :
        IF u.scheme /= b.scheme \/ u.scheme \notin UsesRelative THEN url
        ELSE IF u.scheme \in UsesNetloc /\ u.netloc /= "" THEN urlunparse(u)
        ELSE With(IF u.scheme \in UsesNetloc THEN b.netloc ELSE u.netloc, LAMBDA netloc :
             IF u.path = ""
             THEN urlunparse([scheme |-> u.scheme, netloc |-> netloc, path |-> b.path,
                              query |-> IF u.query = "" THEN b.query ELSE u.query,
                              fragment |-> u.fragment])
             ELSE urlunparse([scheme |-> u.scheme, netloc |-> netloc,
                              path |-> JoinPaths(b.path, u.path),
                              query |-> u.query, fragment |-> u.fragment]))))

(***************************************************************************)
(* Module-level configuration of the scraper.                              *)
(***************************************************************************)
\* the keys of DOCUMENT_TYPES, in insertion order
DOCUMENT_TYPES ==
    <<"R01_terms_and_conditions", "R02_privacy_policy", "R03_ada_acc_statement",
      "R04_cookie_usage_policy", "R05_ai_usage_policy_disclaimer",
      "R06_refund_and_return_policy", "R07_dmca_slash_copyright_policy">>

Categories == {DOCUMENT_TYPES[i] : i \in DOMAIN DOCUMENT_TYPES}

LEGAL_KEYWORDS ==
    {"terms", "privacy", "legal", "policy", "cookie", "accessibility", "refund",
     "return", "dmca", "copyright", "disclaimer", "ai", "conditions", "notice",
     "compliance", "gdpr"}

common_paths ==
    <<"/terms", "/terms-of-service", "/tos", "/terms-and-conditions",
      "/privacy", "/privacy-policy",
      "/accessibility", "/ada",
      "/cookies", "/cookie-policy",
      "/refund", "/refund-policy", "/returns",
      "/dmca", "/copyright",
      "/legal", "/policies">>

\* the sentinel of an empty category slot
NoneSentinel == "None"

\* a fetched text shorter than this is not classified
MinTextLen == 100
\* the prefix of the page text that is sent to the oracle
PreviewLen == 8000
\* the prefix of the cleaned text that is kept in a rendered value
ExcerptLen == 5000
\* the acceptance threshold 0.6, in hundredths
ConfidenceThreshold == 60

(***************************************************************************)
(* JSON values of the oracle's reply, and the dict it parses to.  A key    *)
(* the dict does not hold maps to Missing.                                 *)
(***************************************************************************)
JStr(v) == [t |-> "str", s |-> v, n |-> 0]
\* a number, in hundredths
JNum(v) == [t |-> "num", s |-> "", n |-> v]
JNull == [t |-> "null", s |-> "", n |-> 0]
JList == [t |-> "list", s |-> "", n |-> 0]
Missing == [t |-> "missing", s |-> "", n |-> 0]

Dict(category, confidence, summary) ==
    [category |-> category, confidence |-> confidence, summary |-> summary]

\* d.get(key, default)
Get(d, key, default) == IF d[key] = Missing THEN default ELSE d[key]

\* str(v) as an f-string formats it; the modelled summaries are strings or null
PyStr(v) == IF v.t = "str" THEN v.s ELSE IF v.t = "null" THEN "None" ELSE "[]"

(***************************************************************************)
(* get_page_content returns (html, text).  The markup is [empty, anchors]: *)
(* whether response.text is "", and its <a> elements in document order.    *)
(* An anchor is [has_href, href, text].                                    *)
(***************************************************************************)
Anchor(href, text) == [has_href |-> TRUE, href |-> href, text |-> text]
AnchorNoHref(text) == [has_href |-> FALSE, href |-> "", text |-> text]

\* the "" that get_page_content returns for the markup on any error
EmptyMarkup == [empty |-> TRUE, anchors |-> <<>>]
Markup(anchors) == [empty |-> FALSE, anchors |-> anchors]

(***************************************************************************)
(* find_legal_links.                                                       *)
(***************************************************************************)
Link(url, text, href) == [url |-> url, text |-> text, href |-> href]

\* link.get_text(strip=True)
get_text(link) == StripChar(link.text, " ")

is_legal(link) ==
    With(Lower(get_text(link)), LAMBDA text :
    With(Lower(link.href), LAMBDA href_lower :
        \E kw \in LEGAL_KEYWORDS : Contains(text, kw) \/ Contains(href_lower, kw)))

Urls(links) == {links[i].url : i \in DOMAIN links}

\* the body of the loop over soup.find_all("a", href=True)
ExtractLink(link, base_url, legal_links) ==
    IF ~link.has_href THEN legal_links
    ELSE With(urljoin(base_url, link.href), LAMBDA full_url :
             IF full_url \in Urls(legal_links) THEN legal_links
             ELSE IF is_legal(link)
                  THEN Append(legal_links, Link(full_url, get_text(link), link.href))
                  ELSE legal_links)

RECURSIVE find_legal_links_from(_, _, _, _)
find_legal_links_from(anchors, i, base_url, legal_links) ==
    IF i > Len(anchors) THEN legal_links
    ELSE With(ExtractLink(anchors[i], base_url, legal_links), LAMBDA next :
             find_legal_links_from(anchors, i + 1, base_url, next))

find_legal_links(html, base_url) == find_legal_links_from(html.anchors, 1, base_url, <<>>)

(***************************************************************************)
(* The probing of the conventional paths.                                  *)
(***************************************************************************)
BaseOf(target) ==
    With(urlparse(target, ""), LAMBDA parsed : parsed.scheme \o "://" \o parsed.netloc)

ProbeText(path) == Title(ReplaceHyphens(StripChar(path, "/")))

\* ProbePath without the "not in" test
ProbePath_NoCheck(path, base, legal_links) ==
    Append(legal_links, Link(base \o path, ProbeText(path), path))

\* the body of the loop over common_paths
ProbePath(path, base, legal_links) ==
    With(base \o path, LAMBDA full_url :
        IF full_url \notin Urls(legal_links)
        THEN Append(legal_links, Link(full_url, ProbeText(path), path))
        ELSE legal_links)

RECURSIVE probe_paths(_, _, _, _)
probe_paths(paths, i, base, legal_links) ==
    IF i > Len(paths) THEN legal_links
    ELSE With(ProbePath(paths[i], base, legal_links), LAMBDA next :
             probe_paths(paths, i + 1, base, next))

\* Candidates with the probed paths put before the extracted anchors
Candidates_ProbesFirst(html, target) ==
    With(probe_paths(common_paths, 1, BaseOf(target), <<>>), LAMBDA probed :
        probed \o SelectSeq(find_legal_links(html, target),
                            LAMBDA link : link.url \notin Urls(probed)))

\* the candidate list the loop of scrape_legal_documents runs over
Candidates(html, target) ==
    With(BaseOf(target), LAMBDA base :
    With(find_legal_links(html, target), LAMBDA extracted :
        probe_paths(common_paths, 1, base, extracted)))

(***************************************************************************)
(* classify_document_with_ai: the oracle's reply is [kind, obj]:           *)
(*   call_failed  client.messages.create (or response.content[0]) raises   *)
(*   no_object    the reply text holds no "{...}"                          *)
(*   bad_json     the text from the first "{" to the last "}" is not JSON  *)
(*   object       json.loads returns the dict obj                          *)
(***************************************************************************)
Reply(kind, obj) == [kind |-> kind, obj |-> obj]

DefaultClassification == Dict(JStr("unknown"), JNum(0), JStr(""))

text_preview(text) == IF Len(text) > PreviewLen THEN SubSeq(text, 1, PreviewLen) ELSE text

classify_document_with_ai(reply) ==
    IF reply.kind = "object" THEN reply.obj ELSE DefaultClassification

(***************************************************************************)
(* The acceptance rule and the write into results.                         *)
(***************************************************************************)
\* Usable without the length test
Usable_NonEmpty(text) == text /= ""

\* "if not text or len(text) < 100: continue", negated
Usable(text) == ~(text = "" \/ Len(text) < MinTextLen)

\* Acceptance without the confidence threshold
Acceptance_NoThreshold(outcome) ==
    With(Get(outcome, "category", JStr("unknown")), LAMBDA category :
        IF category.t = "list" THEN "TypeError"
        ELSE IF category.t = "str" /\ category.s \in Categories THEN "accept"
        ELSE "reject")

\* category in DOCUMENT_TYPES and confidence >= 0.6: "accept", "reject", or
\* "TypeError" (an unhashable category; a confidence that is no number)
Acceptance(outcome) ==
    With(Get(outcome, "category", JStr("unknown")), LAMBDA category :
    With(Get(outcome, "confidence", JNum(0)), LAMBDA confidence :
        IF category.t = "list" THEN "TypeError"
        ELSE IF ~(category.t = "str" /\ category.s \in Categories) THEN "reject"
        ELSE IF confidence.t /= "num" THEN "TypeError"
        ELSE IF confidence.n >= ConfidenceThreshold THEN "accept"
        ELSE "reject"))

\* SlotIsFree without the test: the last accepted outcome wins
SlotIsFree_Always(slots, category) == TRUE

\* results[category] == "None"
SlotIsFree(slots, category) == slots[category] = NoneSentinel

\* NextCount that counts every accepted outcome
NextCount_EveryAccept(count, verdict, free) ==
    IF verdict = "accept" THEN count + 1 ELSE count

\* documents_found after one iteration
NextCount(count, verdict, free) ==
    IF verdict = "accept" /\ free THEN count + 1 ELSE count

(***************************************************************************)
(* convert_to_rich_text.                                                   *)
(***************************************************************************)
\* the least element of a non-empty set of numbers
Least(S) == CHOOSE i \in S : \A j \in S : i <= j

RECURSIVE clean(_)
\* re.sub(r'\n{3,}', '\n\n', text): the first run of three or more newlines
\* becomes two, and the text after the run is cleaned the same way
clean(text) ==
    With({i \in 1..(Len(text) - 2) : SubSeq(text, i, i + 2) = "\n\n\n"}, LAMBDA runs :
        IF runs = {} THEN text
        ELSE With({j \in Least(runs)..Len(text) : CharAt(text, j) /= "\n"}, LAMBDA after :
                 SubSeq(text, 1, Least(runs) - 1) \o "\n\n"
                 \o (IF after = {} THEN ""
                     ELSE clean(SubSeq(text, Least(after), Len(text))))))

SourceLine(url) == "**Source:** [" \o url \o "](" \o url \o ")"

convert_to_rich_text(text, url, summary) ==
    With(clean(text), LAMBDA clean_text :
        SourceLine(url) \o "\n\n**Summary:** " \o summary \o "\n\n---\n\n"
        \o (IF Len(clean_text) > ExcerptLen
            THEN SubSeq(clean_text, 1, ExcerptLen) ELSE clean_text)
        \o "\n\n"
        \o (IF Len(clean_text) > ExcerptLen THEN "..." ELSE "") \o "\n")

(***************************************************************************)
(* The environment: the submitted URLs, the root page's anchors, the text  *)
(* served at each URL, and the oracle's replies.                           *)
(***************************************************************************)
\* the "url" of the request body; "" stands for an absent or empty one
SubmittedURLs == {"", "a.co", "https://a.co/shop/", "httpbin.org", "ftp://a.co"}

AnchorVocabulary ==
    {Anchor("/legal", "Legal Notice"),
     Anchor("#", " Terms "),
     Anchor("javascript:void(0)", "Cookie settings"),
     Anchor("", "Privacy"),
     Anchor("/about", "About us"),
     AnchorNoHref("Terms")}

RECURSIVE SeqsUpTo(_, _)
\* the sequences over S of length at most n
SeqsUpTo(S, n) ==
    IF n = 0 THEN {<<>>}
    ELSE With(SeqsUpTo(S, n - 1), LAMBDA shorter :
             shorter \cup {Append(q, e) : q \in shorter, e \in S})

\* the markups a successful root fetch may return
RootPages == {Markup(anchors) : anchors \in SeqsUpTo(AnchorVocabulary, MaxAnchors)}

\* the URLs that serve the site's root page
RootURLs == {"https://a.co"}

\* soup.get_text of the page served at url; "" where nothing is served
PageText(url) ==
    CASE url \in RootURLs -> Repeat("Welcome to our shop. ", 8)
      [] url = "https://a.co/tos" -> Repeat("see terms\n", 9) \o "see terms"
      [] url = "https://a.co/legal" -> Repeat("imprint!\n\n\n", 9) \o "."
      [] url = "https://a.co/policies" ->
             Repeat("These are the terms. ", 120) \o "\n\n\n\n" \o Repeat("More terms.\n", 250)
      [] OTHER -> ""

\* what get_page_content may return as the text of url: "" on any error
FetchedTexts(url) == {"", PageText(url)}

R01 == DOCUMENT_TYPES[1]
R02 == DOCUMENT_TYPES[2]

\* the replies of the oracle
Replies ==
    {Reply("call_failed", DefaultClassification),
     Reply("no_object", DefaultClassification),
     Reply("bad_json", DefaultClassification),
     Reply("object", Dict(JStr(R01), JNum(90), JStr("Terms of use."))),
     Reply("object", Dict(JStr(R02), JNum(60), JStr("How data is used."))),
     Reply("object", Dict(JStr(R02), JNum(95), Missing)),
     Reply("object", Dict(JStr(R01), JNum(55), JStr("Terms of use."))),
     Reply("object", Dict(JStr("unknown"), JNum(90), JStr(""))),
     Reply("object", Dict(JStr("R08_other"), JNum(100), JStr(""))),
     Reply("object", Dict(Missing, JNum(90), JStr("Terms of use."))),
     Reply("object", Dict(JStr(R01), JStr("high"), JStr("Terms of use."))),
     Reply("object", Dict(JList, JNum(90), JStr("")))}

(***************************************************************************)
(* The state of one request.                                               *)
(***************************************************************************)
VARIABLES
    pc,               \* where the request is
    request_url,      \* data.get("url")
    target_url,       \* the argument of scrape_legal_documents
    html,             \* the markup of the root page
    results,          \* the 7 category slots of results
    meta,             \* results["_meta"]
    legal_links,      \* the candidate list
    idx,              \* the position of the loop over legal_links
    text,             \* the text of the candidate the loop is at
    classification,   \* the dict classify_document_with_ai returned for it
    documents_found,
    response,         \* what scrape_endpoint returns
    fetched,          \* history: the URLs passed to get_page_content, in order
    classified,       \* history: the arguments of the oracle calls, in order
    accepted          \* history: [url, category, confidence] of each accepted outcome

vars == <<pc, request_url, target_url, html, results, meta, legal_links, idx, text,
          classification, documents_found, response, fetched, classified, accepted>>

NoResponse == [status |-> 0, body |-> ""]

Init ==
    /\ pc = "idle"
    /\ request_url = ""
    /\ target_url = ""
    /\ html = EmptyMarkup
    /\ results = [c \in Categories |-> NoneSentinel]
    /\ meta = [url |-> "", links_found |-> 0, documents_identified |-> 0]
    /\ legal_links = <<>>
    /\ idx = 1
    /\ text = ""
    /\ classification = DefaultClassification
    /\ documents_found = 0
    /\ response = NoResponse
    /\ fetched = <<>>
    /\ classified = <<>>
    /\ accepted = <<>>

\* "# Ensure URL has scheme"
normalize(url) == IF ~StartsWith(url, "http") THEN "https://" \o url ELSE url

\* scrape_endpoint without a url: 400
scrape_endpoint_no_url ==
    /\ pc = "idle"
    /\ \E url \in SubmittedURLs :
        /\ url = ""
        /\ request_url' = url
    /\ response' = [status |-> 400, body |-> "No URL provided"]
    /\ pc' = "responded"
    /\ UNCHANGED <<target_url, html, results, meta, legal_links, idx, text,
                   classification, documents_found, fetched, classified, accepted>>

\* scrape_endpoint up to the entry of scrape_legal_documents, and the
\* initialisation of results there
scrape_endpoint_call ==
    /\ pc = "idle"
    /\ \E url \in SubmittedURLs :
        /\ url /= ""
        /\ request_url' = url
        /\ target_url' = normalize(url)
        /\ meta' = [url |-> normalize(url), links_found |-> 0, documents_identified |-> 0]
    /\ results' = [c \in Categories |-> NoneSentinel]
    /\ pc' = "fetch_root"
    /\ UNCHANGED <<html, legal_links, idx, text, classification, documents_found,
                   response, fetched, classified, accepted>>

\* root_fetch_failed without the early return: the paths are probed all the same
root_fetch_failed_NoReturn ==
    /\ pc = "fetch_root"
    /\ html' = EmptyMarkup
    /\ fetched' = Append(fetched, target_url)
    /\ meta' = [url |-> meta.url, links_found |-> meta.links_found,
                documents_identified |-> meta.documents_identified,
                error |-> "Could not fetch main page"]
    /\ legal_links' = Candidates(EmptyMarkup, target_url)
    /\ idx' = 1
    /\ documents_found' = 0
    /\ pc' = "loop"
    /\ UNCHANGED <<request_url, target_url, results, text, classification, response,
                   classified, accepted>>

\* get_page_content(target_url) returns "" for the markup: the early return
root_fetch_failed ==
    /\ pc = "fetch_root"
    /\ html' = EmptyMarkup
    /\ fetched' = Append(fetched, target_url)
    /\ meta' = [url |-> meta.url, links_found |-> meta.links_found,
                documents_identified |-> meta.documents_identified,
                error |-> "Could not fetch main page"]
    /\ pc' = "returned"
    /\ UNCHANGED <<request_url, target_url, results, legal_links, idx, text,
                   classification, documents_found, response, classified, accepted>>

\* the root markup arrives: extraction, then the probing of the common paths
root_fetched ==
    /\ pc = "fetch_root"
    /\ target_url \in RootURLs
    /\ \E page \in RootPages :
        /\ html' = page
        /\ legal_links' = Candidates(page, target_url)
        /\ meta' = [meta EXCEPT !.links_found = Len(find_legal_links(page, target_url))]
    /\ fetched' = Append(fetched, target_url)
    /\ documents_found' = 0
    /\ idx' = 1
    /\ pc' = "loop"
    /\ UNCHANGED <<request_url, target_url, results, text, classification, response,
                   classified, accepted>>

\* one iteration without a usable text: "continue".  The locals of the
\* iteration before are out of use; classification is set back.
candidate_skipped ==
    /\ pc = "loop"
    /\ idx <= Len(legal_links)
    /\ \E fetched_text \in FetchedTexts(legal_links[idx].url) :
        /\ ~Usable(fetched_text)
        /\ text' = fetched_text
    /\ fetched' = Append(fetched, legal_links[idx].url)
    /\ classification' = DefaultClassification
    /\ idx' = idx + 1
    /\ UNCHANGED <<pc, request_url, target_url, html, results, meta, legal_links,
                   documents_found, response, classified, accepted>>

\* one iteration with a usable text, up to the return of the oracle call
candidate_classified ==
    /\ pc = "loop"
    /\ idx <= Len(legal_links)
    /\ \E fetched_text \in FetchedTexts(legal_links[idx].url), reply \in Replies :
        /\ Usable(fetched_text)
        /\ text' = fetched_text
        /\ classified' = Append(classified,
               [url |-> legal_links[idx].url, text |-> text_preview(fetched_text),
                link_text |-> legal_links[idx].text])
        /\ classification' = classify_document_with_ai(reply)
    /\ fetched' = Append(fetched, legal_links[idx].url)
    /\ pc' = "decide"
    /\ UNCHANGED <<request_url, target_url, html, results, meta, legal_links, idx,
                   documents_found, response, accepted>>

\* the rest of that iteration: the acceptance rule and the write into results
candidate_decided ==
    /\ pc = "decide"
    /\ LET link == legal_links[idx]
           category == Get(classification, "category", JStr("unknown"))
           summary == Get(classification, "summary", JStr(""))
           verdict == Acceptance(classification)
           free == verdict = "accept" /\ SlotIsFree(results, category.s)
       IN /\ results' = IF verdict = "accept" /\ free
                        THEN [results EXCEPT ![category.s] =
                                 convert_to_rich_text(text, link.url, PyStr(summary))]
                        ELSE results
          /\ documents_found' = NextCount(documents_found, verdict, free)
          /\ accepted' = IF verdict = "accept"
                         THEN Append(accepted,
                                  [url |-> link.url, category |-> category.s,
                                   confidence |-> classification.confidence.n])
                         ELSE accepted
          /\ pc' = IF verdict = "TypeError" THEN "raised" ELSE "loop"
          /\ idx' = IF verdict = "TypeError" THEN idx ELSE idx + 1
    /\ UNCHANGED <<request_url, target_url, html, meta, legal_links, text,
                   classification, response, fetched, classified>>

\* the loop is over: the count goes into the metadata and results is returned
scrape_returns ==
    /\ pc = "loop"
    /\ idx > Len(legal_links)
    /\ meta' = [meta EXCEPT !.documents_identified = documents_found]
    /\ pc' = "returned"
    /\ UNCHANGED <<request_url, target_url, html, results, legal_links, idx, text,
                   classification, documents_found, response, fetched, classified,
                   accepted>>

\* scrape_endpoint: jsonify(results)
endpoint_responds ==
    /\ pc = "returned"
    /\ response' = [status |-> 200, body |-> "results"]
    /\ pc' = "responded"
    /\ UNCHANGED <<request_url, target_url, html, results, meta, legal_links, idx,
                   text, classification, documents_found, fetched, classified, accepted>>

\* scrape_endpoint: "except Exception as e"
endpoint_catches ==
    /\ pc = "raised"
    /\ response' = [status |-> 500, body |-> "error"]
    /\ pc' = "responded"
    /\ UNCHANGED <<request_url, target_url, html, results, meta, legal_links, idx,
                   text, classification, documents_found, fetched, classified, accepted>>

Next ==
    \/ scrape_endpoint_no_url
    \/ scrape_endpoint_call
    \/ root_fetch_failed
    \/ root_fetched
    \/ candidate_skipped
    \/ candidate_classified
    \/ candidate_decided
    \/ scrape_returns
    \/ endpoint_responds
    \/ endpoint_catches

Spec == Init /\ [][Next]_vars

(***************************************************************************)
(* Properties.                                                             *)
(***************************************************************************)
\* the categories whose slot holds a value
Filled == {c \in Categories : results[c] /= NoneSentinel}

\* the candidates the loop has fetched so far
Processed == 1..(Len(fetched) - 1)

\* v is the rendering of some candidate the loop has been at
RenderedValue(v) ==
    \E i \in DOMAIN legal_links :
        /\ i <= idx
        /\ StartsWith(v, "**Source:** [" \o legal_links[i].url \o "]("
                          \o legal_links[i].url \o ")\n\n**Summary:** ")

\* C1: each of the 7 slots is at every step the sentinel "None" or one
\* rendered value, and a slot that has left "None" is never changed again.
C1_SlotsWrittenOnce ==
    /\ [](\A c \in Categories : results[c] = NoneSentinel \/ RenderedValue(results[c]))
    /\ [][\A c \in Categories : results[c] /= NoneSentinel => results'[c] = results[c]]_vars

\* a second outcome was accepted for an occupied category and decided
C1_Witness ==
    /\ pc = "loop"
    /\ \E i, j \in DOMAIN accepted :
        i < j /\ accepted[i].category = accepted[j].category

\* C2: a step writes a slot or moves the found-counter only if it is the
\* decision on an outcome whose category is one of the 7 identifiers and whose
\* confidence is a number >= 0.6; any other outcome leaves both unchanged.
C2_AcceptanceRule ==
    [][(results' /= results \/ documents_found' /= documents_found) =>
          /\ pc = "decide"
          /\ classification.category.t = "str"
          /\ classification.category.s \in Categories
          /\ classification.confidence.t = "num"
          /\ classification.confidence.n >= ConfidenceThreshold]_vars

\* an outcome with confidence 0.55 for a valid category was decided, and no
\* slot holds a value
C2_Witness ==
    /\ pc = "loop"
    /\ Len(classified) > 0
    /\ classification.category = JStr(R01)
    /\ classification.confidence = JNum(55)
    /\ Filled = {}
    /\ documents_found = 0

\* the root fetch of this request returned no markup
RootFetchFailed ==
    /\ pc \in {"returned", "raised", "loop", "decide", "responded"}
    /\ Len(fetched) > 0
    /\ html.empty

PathIndex(href) ==
    IF \E k \in DOMAIN common_paths : common_paths[k] = href
    THEN CHOOSE k \in DOMAIN common_paths : common_paths[k] = href
    ELSE 0

\* the first links_found candidates are anchors of the root page in document
\* order; the others are probed paths in the order of the fixed list
CandidateOrder ==
    LET n == meta.links_found
        anchors == html.anchors
    IN /\ n <= Len(legal_links)
       /\ \E f \in [1..n -> DOMAIN anchors] :
            /\ \A k \in 1..n :
                /\ anchors[f[k]].has_href
                /\ anchors[f[k]].href = legal_links[k].href
            /\ \A k \in 1..(n - 1) : f[k] < f[k + 1]
       /\ \A k \in (n + 1)..Len(legal_links) :
            /\ PathIndex(legal_links[k].href) > 0
            /\ k > n + 1 =>
                   PathIndex(legal_links[k - 1].href) < PathIndex(legal_links[k].href)

\* the position of a URL in the candidate list
Position(url) == CHOOSE k \in DOMAIN legal_links : legal_links[k].url = url

\* C4: the candidates are the anchors in document order followed by the probed
\* paths in list order, outcomes are accepted in that order, and a slot holds
\* the rendering of the first candidate accepted for its category.
C4_FirstAcceptedWins ==
    pc \in {"loop", "decide", "returned", "raised"} =>
        /\ CandidateOrder
        /\ \A i, j \in DOMAIN accepted :
              i < j => Position(accepted[i].url) < Position(accepted[j].url)
        /\ \A c \in Categories :
              LET hits == {i \in DOMAIN accepted : accepted[i].category = c}
              IN IF hits = {} THEN results[c] = NoneSentinel
                 ELSE StartsWith(results[c],
                          "**Source:** [" \o accepted[Least(hits)].url \o "](")

\* an anchor and, after it, a probed path were accepted for one category, the
\* later one with the higher confidence
C4_Witness ==
    /\ pc = "returned"
    /\ \E i, j \in DOMAIN accepted :
        /\ i < j
        /\ accepted[i].category = accepted[j].category
        /\ accepted[i].confidence < accepted[j].confidence
        /\ Position(accepted[i].url) <= meta.links_found
        /\ Position(accepted[j].url) > meta.links_found

C6_MalformedReplyDowngraded ==
    /\ pc /= "raised"
    /\ pc = "decide" =>
          \/ classification = DefaultClassification
          \/ /\ classification.category.t = "str"
             /\ classification.confidence.t = "num"
             /\ classification.summary.t = "str"

\* C7, as claimed: no candidate comes from an anchor whose href is empty,
\* starts with "javascript:" or is a bare "#".
C7_NoPseudoLinks ==
    \A k \in DOMAIN legal_links :
        /\ legal_links[k].href /= ""
        /\ legal_links[k].href /= "#"
        /\ ~StartsWith(legal_links[k].href, "javascript:")

\* C8: the found-counter equals the number of filled slots throughout the
\* loop, and the returned metadata carries that number; with no anchors and
\* nothing classified it is 0 and all slots are "None".
C8_CountMatchesSlots ==
    /\ pc \in {"loop", "decide"} => documents_found = Cardinality(Filled)
    /\ (pc = "returned" \/ (pc = "responded" /\ response.status = 200)) =>
          /\ meta.documents_identified = Cardinality(Filled)
          /\ (classified = <<>> => Filled = {} /\ meta.documents_identified = 0)

\* three outcomes were accepted, two of them for the same category, and the
\* run returned a count of 2
C8_Witness ==
    /\ pc = "returned"
    /\ Len(accepted) = 3
    /\ meta.documents_identified = 2

HasScheme(url) == urlparse(url, "").scheme /= ""

\* C9, as claimed: the URL handed to the scraper has a scheme; one submitted
\* without a scheme got "https://" in front, one with a scheme is unchanged.
C9_SchemeEnsured ==
    pc = "fetch_root" =>
        /\ HasScheme(target_url)
        /\ HasScheme(request_url) => target_url = request_url
        /\ ~HasScheme(request_url) => target_url = "https://" \o request_url

\* C10: an iteration whose fetch yields no text or fewer than 100 characters
\* calls no oracle, changes no slot, counter or metadata, and moves the loop
\* to the next candidate.
C10_UnusableTextSkipped ==
    [][(pc = "loop" /\ Len(fetched') = Len(fetched) + 1
           /\ (text' = "" \/ Len(text') < MinTextLen)) =>
          /\ classified' = classified
          /\ results' = results
          /\ documents_found' = documents_found
          /\ meta' = meta
          /\ accepted' = accepted
          /\ pc' = "loop"
          /\ idx' = idx + 1]_vars

\* a page of 99 characters was fetched and the loop is at the next candidate
C10_Witness ==
    /\ pc = "loop"
    /\ Len(text) = MinTextLen - 1
    /\ idx > 1
    /\ fetched[Len(fetched)] = legal_links[idx - 1].url
    /\ \A k \in DOMAIN classified : classified[k].url /= legal_links[idx - 1].url

====
